---- MODULE Spec2Model ----
(***************************************************************************)
(* Model of src/src/images-optimization.ts: the rich-text renderer         *)
(* (RitchText().render) and the image URL builder (optimizeImage).         *)
(*                                                                         *)
(* A JavaScript string is a sequence of one-character strings, so that     *)
(* escaping, joining and template literals are computed character by       *)
(* character.  A JavaScript value is a record with a "kind" field:         *)
(*   [kind |-> "null"]                      null / undefined               *)
(*   [kind |-> "array", items |-> <<..>>]   an array                       *)
(*   [kind |-> "object", type |-> .., ..]   a node or a mark; the optional *)
(*        properties attrs, content, text, marks are present in the record *)
(*        exactly when they are present on the object.                     *)
(* attrs is a sequence of [key, value] records in insertion order.         *)
(* A call returns [thrown |-> "none", value |-> v] or throws               *)
(* [thrown |-> "RangeError" | "TypeError"].                                *)
(***************************************************************************)
EXTENDS Naturals, Sequences, FiniteSets, TLC

VARIABLES pc, op, arg, ret

vars == <<pc, op, arg, ret>>

(***************************************************************************)
(* Bounds of the model.                                                    *)
(***************************************************************************)
\* longest text of a plain text node drawn over the full Alphabet
MaxTextLen == 4
\* call-stack frames of render/renderNode the engine allows before RangeError
MaxCallDepth == 8
\* longest content sequence of a block node
MaxContent == 2
\* longest sequence passed to render at top level
MaxSeqLen == 2
\* longest marks list of a text node
MaxMarks == 2

(***************************************************************************)
(* Strings.                                                                *)
(***************************************************************************)
RECURSIVE Concat(_)
\* Array.prototype.join('') of an array of strings
Concat(strs) ==
  IF strs = <<>> THEN <<>> ELSE Head(strs) \o Concat(Tail(strs))

RECURSIVE JoinWith(_, _)
\* Array.prototype.join(sep) of an array of strings
JoinWith(strs, sep) ==
  IF strs = <<>> THEN <<>>
  ELSE IF Len(strs) = 1 THEN Head(strs)
  ELSE Head(strs) \o sep \o JoinWith(Tail(strs), sep)

RECURSIVE ReplaceAll(_, _, _)
\* String.prototype.replace(/c/g, rep) for a one-character pattern c
ReplaceAll(s, c, rep) ==
  IF s = <<>> THEN <<>>
  ELSE (IF Head(s) = c THEN rep ELSE <<Head(s)>>) \o ReplaceAll(Tail(s), c, rep)

S_undefined == <<"u", "n", "d", "e", "f", "i", "n", "e", "d">>

Null == [kind |-> "null"]

Ok(v) == [thrown |-> "none", value |-> v]

Throw(e) == [thrown |-> e]

Has(obj, field) == field \in DOMAIN obj

(***************************************************************************)
(* Type identifiers of ./types (BlockTypes, TextTypes, MarkTypes,          *)
(* LinkTypes), named as section 3 of the specification names them.         *)
(***************************************************************************)
BlockTypes == {"document", "heading", "paragraph", "unordered-list",
               "ordered-list", "list-item"}

TextTypes == {"text"}

MarkTypes == {"link", "anchor", "styled", "bold", "italic", "underline",
              "strike", "code", "superscript", "subscript", "highlight"}

LinkAsset == <<"a", "s", "s", "e", "t">>
LinkUrl == <<"u", "r", "l">>
LinkEmail == <<"e", "m", "a", "i", "l">>
LinkStory == <<"s", "t", "o", "r", "y">>

(***************************************************************************)
(* attrsToString and escapeHtml.                                           *)
(***************************************************************************)
RECURSIVE AttrPairs(_)
AttrPairs(attrs) ==
  IF attrs = <<>> THEN <<>>
  ELSE <<Head(attrs).key \o <<"=", "\"">> \o Head(attrs).value \o <<"\"">>>>
       \o AttrPairs(Tail(attrs))

\* attrsToString(node.attrs): the default parameter {} stands for absent attrs
attrsToString(node) ==
  IF Has(node, "attrs") THEN JoinWith(AttrPairs(node.attrs), <<" ">>) ELSE <<>>

escapeHtml_AmpLast(unsafeText) ==
  ReplaceAll(
    ReplaceAll(
      ReplaceAll(
        ReplaceAll(
          ReplaceAll(unsafeText, "<", <<"&", "l", "t", ";">>),
          ">", <<"&", "g", "t", ";">>),
        "\"", <<"&", "q", "u", "o", "t", ";">>),
      "'", <<"&", "#", "0", "3", "9", ";">>),
    "&", <<"&", "a", "m", "p", ";">>)

escapeHtml(unsafeText) ==
  ReplaceAll(
    ReplaceAll(
      ReplaceAll(
        ReplaceAll(
          ReplaceAll(unsafeText, "&", <<"&", "a", "m", "p", ";">>),
          "<", <<"&", "l", "t", ";">>),
        ">", <<"&", "g", "t", ";">>),
      "\"", <<"&", "q", "u", "o", "t", ";">>),
    "'", <<"&", "#", "0", "3", "9", ";">>)

(***************************************************************************)
(* Property access: node.attrs?.key, and `${v}` of a possibly absent v.    *)
(***************************************************************************)
RECURSIVE Lookup(_, _)
\* the value of key in attrs, Null when the key is absent
Lookup(attrs, key) ==
  IF attrs = <<>> THEN Null
  ELSE IF Head(attrs).key = key THEN [kind |-> "string", value |-> Head(attrs).value]
  ELSE Lookup(Tail(attrs), key)

\* node.attrs?.key
AttrOf(node, key) == IF Has(node, "attrs") THEN Lookup(node.attrs, key) ELSE Null

\* `${v}`
Template(v) == IF v.kind = "string" THEN v.value ELSE S_undefined

\* truthiness of a string-or-undefined value
Truthy(v) == v.kind = "string" /\ v.value # <<>>

\* `${node.children?.join('')}`
ChildrenString(children) ==
  IF children.kind = "array" THEN Concat(children.items) ELSE S_undefined

(***************************************************************************)
(* The resolvers of RitchText().                                           *)
(***************************************************************************)
Element(tag, attrString, body) ==
  <<"<">> \o tag \o <<" ">> \o attrString \o <<">">> \o body
          \o <<"<", "/">> \o tag \o <<">">>

nodeResolver(tag, node, children) ==
  Element(tag, attrsToString(node), ChildrenString(children))

headingResolver(node, children) ==
  Element(<<"h">> \o Template(AttrOf(node, <<"l", "e", "v", "e", "l">>)),
          attrsToString(node), ChildrenString(children))

markResolver(tag, node) ==
  Element(tag, attrsToString(node),
          IF Has(node, "text") THEN node.text ELSE S_undefined)

linkHref(node) ==
  LET linktype == AttrOf(node, <<"l", "i", "n", "k", "t", "y", "p", "e">>)
      href == AttrOf(node, <<"h", "r", "e", "f">>)
  IN  IF linktype.kind # "string" THEN <<>>
      ELSE IF linktype.value \in {LinkAsset, LinkUrl, LinkStory} THEN Template(href)
      ELSE IF linktype.value = LinkEmail
           THEN <<"m", "a", "i", "l", "t", "o", ":">> \o Template(href)
      ELSE <<>>

linkResolver(node) ==
  LET target == AttrOf(node, <<"t", "a", "r", "g", "e", "t">>)
      targetAttr == IF Truthy(target)
                    THEN <<" ", "t", "a", "r", "g", "e", "t", "=", "\"">>
                         \o target.value \o <<"\"">>
                    ELSE <<>>
  IN  <<"<", "a", " ">> \o attrsToString(node)
        \o <<" ", "h", "r", "e", "f", "=", "\"">> \o linkHref(node) \o <<"\"">>
        \o targetAttr \o <<">">>
        \o (IF Has(node, "text") THEN node.text ELSE S_undefined)
        \o <<"<", "/", "a", ">">>

documentResolver(children) ==
  <<"<", "d", "i", "v", ">">> \o ChildrenString(children)
     \o <<"<", "/", "d", "i", "v", ">">>

\* resolvers.get(type) is defined
HasResolver(type) == type \in BlockTypes \cup TextTypes \cup MarkTypes

\* the resolvers map, for every type but text
Resolve(type, node, children) ==
  CASE type = "document" -> documentResolver(children)
    [] type = "heading" -> headingResolver(node, children)
    [] type = "paragraph" -> nodeResolver(<<"p">>, node, children)
    [] type = "unordered-list" -> nodeResolver(<<"u", "l">>, node, children)
    [] type = "ordered-list" -> nodeResolver(<<"o", "l">>, node, children)
    [] type = "list-item" -> nodeResolver(<<"l", "i">>, node, children)
    [] type \in {"link", "anchor"} -> linkResolver(node)
    [] type = "styled" -> markResolver(<<"s", "p", "a", "n">>, node)
    [] type = "bold" -> markResolver(<<"s", "t", "r", "o", "n", "g">>, node)
    [] type = "italic" -> markResolver(<<"e", "m">>, node)
    [] type = "underline" -> markResolver(<<"u">>, node)
    [] type = "strike" -> markResolver(<<"s">>, node)
    [] type = "code" -> markResolver(<<"c", "o", "d", "e">>, node)
    [] type = "superscript" -> markResolver(<<"s", "u", "p">>, node)
    [] type = "subscript" -> markResolver(<<"s", "u", "b">>, node)
    [] type = "highlight" -> markResolver(<<"m", "a", "r", "k">>, node)

(***************************************************************************)
(* render, renderNode and textResolver.  The parameter d is the number of  *)
(* render/renderNode frames on the call stack.                             *)
(***************************************************************************)
\* node.type; an array has no type property
TypeOf(node) == IF Has(node, "type") THEN node.type ELSE "undefined"

MissingResolver_Throws(node) == Throw("TypeError")

\* renderNode when resolvers.get(node.type) is undefined
MissingResolver(node) == Ok(<<>>)

\* { ...mark, text }
WithText(mark, text) ==
  [f \in DOMAIN mark \cup {"text"} |-> IF f = "text" THEN text ELSE mark[f]]

RECURSIVE render(_, _)
RECURSIVE renderNode(_, _)
RECURSIVE textResolver(_, _)
RECURSIVE ReduceMarks(_, _, _)
RECURSIVE MapRender(_, _)
RECURSIVE MapRenderNode(_, _)

\* node.content.map(render): the rendered children, or the first exception
MapRender(items, d) ==
  IF items = <<>> THEN Ok(<<>>)
  ELSE LET first == render(Head(items), d)
       IN  IF first.thrown # "none" THEN first
           ELSE LET rest == MapRender(Tail(items), d)
                IN  IF rest.thrown # "none" THEN rest
                    ELSE Ok(<<first.value>> \o rest.value)

\* node.map(renderNode) of a top-level array
MapRenderNode(items, d) ==
  IF items = <<>> THEN Ok(<<>>)
  ELSE LET first == renderNode(Head(items), d)
       IN  IF first.thrown # "none" THEN first
           ELSE LET rest == MapRenderNode(Tail(items), d)
                IN  IF rest.thrown # "none" THEN rest
                    ELSE Ok(<<first.value>> \o rest.value)

\* marks.reduce((text, mark) => render({ ...mark, text }), text)
ReduceMarks(marks, text, d) ==
  IF marks = <<>> THEN Ok(text)
  ELSE LET step == render(WithText(Head(marks), text), d)
       IN  IF step.thrown # "none" THEN step
           ELSE ReduceMarks(Tail(marks), step.value, d)

textResolver(node, d) ==
  IF Has(node, "text")
  THEN IF Has(node, "marks")
       THEN LET initial == render(node, d + 1)
            IN  IF initial.thrown # "none" THEN initial
                ELSE ReduceMarks(node.marks, initial.value, d + 1)
       ELSE Ok(escapeHtml(node.text))
  ELSE Ok(<<>>)

renderNode(node, d) ==
  IF d > MaxCallDepth THEN Throw("RangeError")
  ELSE IF node.kind = "null" THEN Throw("TypeError")
  ELSE IF ~HasResolver(TypeOf(node)) THEN MissingResolver(node)
  ELSE IF TypeOf(node) = "text" THEN textResolver(node, d)
  ELSE LET children == IF Has(node, "content")
                       THEN MapRender(node.content, d + 1)
                       ELSE Ok(Null)
       IN  IF children.thrown # "none" THEN children
           ELSE Ok(Resolve(TypeOf(node), node,
                           IF Has(node, "content")
                           THEN [kind |-> "array", items |-> children.value]
                           ELSE Null))

render(node, d) ==
  IF d > MaxCallDepth THEN Throw("RangeError")
  ELSE IF node.kind = "null" THEN Ok(<<>>)
  ELSE IF node.kind = "array"
       THEN LET parts == MapRenderNode(node.items, d + 1)
            IN  IF parts.thrown # "none" THEN parts ELSE Ok(Concat(parts.value))
       ELSE renderNode(node, d + 1)

(***************************************************************************)
(* optimizeImage.  options is [kind |-> "null"] (absent or false),         *)
(* [kind |-> "boolean"] (true) or [kind |-> "object", ..] with the         *)
(* optional properties width, height, loading, class, filters; filters is  *)
(* a record with the optional properties blur, quality, brightness, fill,  *)
(* grayscale, rotate, format.  Numbers are naturals.                       *)
(***************************************************************************)
DigitChar(n) == <<"0", "1", "2", "3", "4", "5", "6", "7", "8", "9">>[n + 1]

RECURSIVE NumToStr(_)
\* `${n}` of a natural number
NumToStr(n) ==
  IF n < 10 THEN <<DigitChar(n)>>
  ELSE NumToStr(n \div 10) \o <<DigitChar(n % 10)>>

\* options.key is a truthy number
TruthyNum(obj, f) == Has(obj, f) /\ obj[f] # 0

\* options.key is a truthy string
TruthyStr(obj, f) == Has(obj, f) /\ obj[f] # <<>>

\* name(value)
Filter(name, value) == name \o <<"(">> \o value \o <<")">>

\* the filterParams array after lines 16-27
filterParams(options) ==
  IF options.kind = "object" /\ Has(options, "filters")
  THEN LET filters == options.filters
       IN  (IF TruthyNum(filters, "blur")
            THEN <<Filter(<<"b", "l", "u", "r">>, NumToStr(filters.blur))>> ELSE <<>>)
        \o (IF TruthyNum(filters, "quality")
            THEN <<Filter(<<"q", "u", "a", "l", "i", "t", "y">>,
                          NumToStr(filters.quality))>> ELSE <<>>)
        \o (IF TruthyNum(filters, "brightness")
            THEN <<Filter(<<"b", "r", "i", "g", "h", "t", "n", "e", "s", "s">>,
                          NumToStr(filters.brightness))>> ELSE <<>>)
        \o (IF TruthyStr(filters, "fill")
            THEN <<Filter(<<"f", "i", "l", "l">>, filters.fill)>> ELSE <<>>)
        \o (IF Has(filters, "grayscale") /\ filters.grayscale
            THEN <<Filter(<<"g", "r", "a", "y", "s", "c", "a", "l", "e">>, <<>>)>>
            ELSE <<>>)
        \o (IF TruthyNum(filters, "rotate") /\ filters.rotate \in {90, 180, 270}
            THEN <<Filter(<<"r", "o", "t", "a", "t", "e">>, NumToStr(filters.rotate))>>
            ELSE <<>>)
        \o (IF TruthyStr(filters, "format")
               /\ filters.format \in {<<"w", "e", "b", "p">>, <<"p", "n", "g">>,
                                      <<"j", "p", "e", "g">>}
            THEN <<Filter(<<"f", "o", "r", "m", "a", "t">>, filters.format)>>
            ELSE <<>>)
  ELSE <<>>

\* the attrs object after lines 10-13, as [key, value] records in insertion order
imageAttrs(options) ==
  IF options.kind = "object"
  THEN (IF TruthyNum(options, "width")
        THEN <<[key |-> "width", value |-> options.width]>> ELSE <<>>)
    \o (IF TruthyNum(options, "height")
        THEN <<[key |-> "height", value |-> options.height]>> ELSE <<>>)
    \o (IF TruthyStr(options, "loading")
           /\ options.loading \in {<<"l", "a", "z", "y">>, <<"e", "a", "g", "e", "r">>}
        THEN <<[key |-> "loading", value |-> options.loading]>> ELSE <<>>)
    \o (IF TruthyStr(options, "class")
        THEN <<[key |-> "class", value |-> options.class]>> ELSE <<>>)
  ELSE <<>>

\* w and h after lines 5-11
imageW(options) ==
  IF options.kind = "object" /\ TruthyNum(options, "width") THEN options.width ELSE 0

imageH(options) ==
  IF options.kind = "object" /\ TruthyNum(options, "height") THEN options.height ELSE 0

optimizeImage(src, options) ==
  IF options.kind = "null" THEN Ok([src |-> src, attrs |-> <<>>])
  ELSE LET w == imageW(options)
           h == imageH(options)
           params == filterParams(options)
           base == src \o <<"/", "m", "/">>
           sized == IF w > 0 /\ h > 0
                    THEN base \o NumToStr(w) \o <<"x">> \o NumToStr(h)
                    ELSE base
           resultSrc == IF Len(params) > 0
                        THEN sized \o <<"f", "i", "l", "t", "e", "r", "s", ":">>
                                   \o JoinWith(params, <<":">>)
                        ELSE sized
       IN  Ok([src |-> resultSrc, attrs |-> imageAttrs(options)])

(***************************************************************************)
(* The inputs a caller can pass.                                           *)
(***************************************************************************)
\* all sequences over S of length at most n
SeqsUpTo(S, n) == UNION {[1..k -> S] : k \in 0..n}

\* the five escaped characters, and the letters that spell an entity
Alphabet == {"&", "<", ">", "\"", "'", "l", "t", ";"}

TextNode(text) == [kind |-> "object", type |-> "text", text |-> text]

MarkedText(text, marks) ==
  [kind |-> "object", type |-> "text", text |-> text, marks |-> marks]

Mark(type) == [kind |-> "object", type |-> type]

MarkWith(type, attrs) == [kind |-> "object", type |-> type, attrs |-> attrs]

Block(type) == [kind |-> "object", type |-> type]

BlockOf(type, content) == [kind |-> "object", type |-> type, content |-> content]

Attr(key, value) == [key |-> key, value |-> value]

S_Hi == <<"H", "i", " ", "<", "t", "h", "e", "r", "e", ">">>
S_go == <<"g", "o">>
S_addr == <<"a", "@", "b", ".", "c", "o", "m">>
K_href == <<"h", "r", "e", "f">>
K_linktype == <<"l", "i", "n", "k", "t", "y", "p", "e">>
K_target == <<"t", "a", "r", "g", "e", "t">>
K_level == <<"l", "e", "v", "e", "l">>

\* text nodes without marks, over every string of the alphabet
PlainTexts == {TextNode(s) : s \in SeqsUpTo(Alphabet, MaxTextLen)}

BoldText == MarkedText(S_Hi, <<Mark("bold")>>)

\* a node whose type has no resolver, with a subtree of its own
UnknownNode == BlockOf("blockquote", <<BoldText>>)

Leaves == {TextNode(S_Hi), BoldText, UnknownNode, Null}

\* attrs of a link or anchor mark: every choice of linktype, href and target
LinkAttrs ==
  {   (IF lt = <<>> THEN <<>> ELSE <<Attr(K_linktype, lt)>>)
   \o (IF hr THEN <<Attr(K_href, S_addr)>> ELSE <<>>)
   \o (IF tg = "none" THEN <<>>
       ELSE <<Attr(K_target, IF tg = "empty" THEN <<>> ELSE <<"_", "b">>)>>)
   : lt \in {<<>>, LinkAsset, LinkUrl, LinkEmail, LinkStory, <<"x">>},
     hr \in BOOLEAN, tg \in {"none", "empty", "blank"}}

\* marks as they occur in a marks list
Marks ==
  {Mark("bold"), Mark("italic"), Mark("sparkle"),
   MarkWith("link", <<Attr(K_linktype, LinkEmail), Attr(K_href, S_addr)>>),
   MarkWith("anchor", <<Attr(K_linktype, LinkUrl), Attr(K_href, S_addr),
                       Attr(K_target, <<"_", "b">>)>>)}

MarkedTexts == {MarkedText(S_go, ms) : ms \in SeqsUpTo(Marks, MaxMarks)}

\* { ...mark, text }: the nodes the marks fold hands to render
MarkNodes ==
  {WithText(MarkWith(t, a), S_go) : t \in {"link", "anchor"}, a \in LinkAttrs}
  \cup {WithText(Mark(t), S_go) : t \in MarkTypes}
  \cup {Mark(t) : t \in {"link", "bold"}}

HeadingAttrs == {<<Attr(K_level, <<"3">>)>>}

\* block nodes over the leaves: content absent, or any sequence of leaves
Blocks1 ==
  {Block(t) : t \in BlockTypes}
  \cup {BlockOf(t, c) : t \in BlockTypes, c \in SeqsUpTo(Leaves, MaxContent)}
  \cup {[kind |-> "object", type |-> "heading", attrs |-> a, content |-> c] :
          a \in HeadingAttrs, c \in SeqsUpTo({TextNode(S_Hi)}, MaxContent)}
  \cup {[kind |-> "object", type |-> "heading", attrs |-> a] : a \in HeadingAttrs}

\* the children of a document: leaves, and paragraphs of at most one leaf
DocChildren ==
  Leaves \cup {Block("paragraph"), BlockOf("paragraph", <<>>)}
         \cup {BlockOf("paragraph", <<l>>) : l \in Leaves}

Documents == {BlockOf("document", c) : c \in SeqsUpTo(DocChildren, MaxContent)}

\* the elements of a top-level sequence
TopElements ==
  Leaves \cup {Block("paragraph"), BlockOf("paragraph", <<TextNode(S_Hi)>>),
               BlockOf("document", <<UnknownNode>>)}

TopSequences ==
  {[kind |-> "array", items |-> items] : items \in SeqsUpTo(TopElements, MaxSeqLen)}

RenderInputs ==
  {Null, UnknownNode, TextNode(<<>>), [kind |-> "object", type |-> "text"]}
  \cup PlainTexts \cup MarkedTexts \cup MarkNodes \cup Blocks1 \cup Documents
  \cup TopSequences

ImageFilters ==
  {[f \in fs |-> CASE f = "blur" -> 5
                   [] f = "quality" -> 80
                   [] f = "brightness" -> 0
                   [] f = "fill" -> <<"r", "e", "d">>
                   [] f = "grayscale" -> TRUE
                   [] f = "rotate" -> r
                   [] f = "format" -> fm] :
     fs \in SUBSET {"blur", "quality", "brightness", "fill", "grayscale",
                    "rotate", "format"},
     r \in {90, 45}, fm \in {<<"p", "n", "g">>, <<"g", "i", "f">>}}

ImageOptions ==
  {Null, [kind |-> "boolean"]}
  \cup {[f \in fs \cup {"kind"} |->
           CASE f = "kind" -> "object"
             [] f = "width" -> w
             [] f = "height" -> h
             [] f = "loading" -> <<"l", "a", "z", "y">>
             [] f = "class" -> <<"c">>
             [] f = "filters" -> fl] :
          fs \in SUBSET {"width", "height", "loading", "class", "filters"},
          w \in {0, 20}, h \in {10}, fl \in ImageFilters}

ImageInputs == {[src |-> <<"u">>, options |-> o] : o \in ImageOptions}

(***************************************************************************)
(* The state machine: one call of a public operation on a drawn input.     *)
(***************************************************************************)
Init ==
  /\ pc = "ready"
  /\ ret = Null
  /\ \/ op = "render" /\ arg \in RenderInputs
     \/ op = "optimizeImage" /\ arg \in ImageInputs

CallRender ==
  /\ pc = "ready"
  /\ op = "render"
  /\ ret' = render(arg, 1)
  /\ pc' = "done"
  /\ UNCHANGED <<op, arg>>

CallOptimizeImage ==
  /\ pc = "ready"
  /\ op = "optimizeImage"
  /\ ret' = optimizeImage(arg.src, arg.options)
  /\ pc' = "done"
  /\ UNCHANGED <<op, arg>>

Next == CallRender \/ CallOptimizeImage

Spec == Init /\ [][Next]_vars

Rendered == pc = "done" /\ op = "render"

(***************************************************************************)
(* Vocabulary of the properties.                                           *)
(***************************************************************************)
Returned == ret.thrown = "none"

IsObject(v) == v.kind = "object"

IsTextNode(v) == IsObject(v) /\ TypeOf(v) = "text" /\ Has(v, "text")

IsPlainText(v) == IsTextNode(v) /\ ~Has(v, "marks")

IsBlock(v) == IsObject(v) /\ TypeOf(v) \in BlockTypes

IsLinkNode(v) == IsObject(v) /\ TypeOf(v) \in {"link", "anchor"}

IsUnknown(v) == IsObject(v) /\ ~HasResolver(TypeOf(v))

StartsWith(s, pat) == Len(s) >= Len(pat) /\ SubSeq(s, 1, Len(pat)) = pat

EndsWith(s, pat) ==
  Len(s) >= Len(pat) /\ SubSeq(s, Len(s) - Len(pat) + 1, Len(s)) = pat

\* the number of positions of s at which pat occurs
Occurrences(s, pat) ==
  Cardinality({i \in 1..Len(s) :
                 i + Len(pat) - 1 <= Len(s) /\ SubSeq(s, i, i + Len(pat) - 1) = pat})

Contains(s, pat) == Occurrences(s, pat) > 0

\* s up to and including its first ">"
OpeningTag(s) ==
  LET ends == {i \in 1..Len(s) : s[i] = ">"}
  IN  IF ends = {} THEN s
      ELSE SubSeq(s, 1, CHOOSE i \in ends : \A j \in ends : i <= j)

\* the entity the specification assigns to one character
EntityOf(c) ==
  CASE c = "&" -> <<"&", "a", "m", "p", ";">>
    [] c = "<" -> <<"&", "l", "t", ";">>
    [] c = ">" -> <<"&", "g", "t", ";">>
    [] c = "\"" -> <<"&", "q", "u", "o", "t", ";">>
    [] c = "'" -> <<"&", "#", "0", "3", "9", ";">>
    [] OTHER -> <<c>>

\* each character replaced by its entity, every other character unchanged
Escaped(s) == Concat([i \in 1..Len(s) |-> EntityOf(s[i])])

RECURSIVE ReplaceSeq(_, _, _)
\* every leftmost, non-overlapping occurrence of pat in s replaced by rep
ReplaceSeq(s, pat, rep) ==
  IF Len(s) < Len(pat) THEN s
  ELSE IF SubSeq(s, 1, Len(pat)) = pat
       THEN rep \o ReplaceSeq(SubSeq(s, Len(pat) + 1, Len(s)), pat, rep)
       ELSE <<Head(s)>> \o ReplaceSeq(Tail(s), pat, rep)

\* the inverse replacements, the ampersand restored last
Unescaped(s) ==
  ReplaceSeq(
    ReplaceSeq(
      ReplaceSeq(
        ReplaceSeq(
          ReplaceSeq(s, <<"&", "#", "0", "3", "9", ";">>, <<"'">>),
          <<"&", "q", "u", "o", "t", ";">>, <<"\"">>),
        <<"&", "g", "t", ";">>, <<">">>),
      <<"&", "l", "t", ";">>, <<"<">>),
    <<"&", "a", "m", "p", ";">>, <<"&">>)

\* the children of a value: the items of an array, the content of a node
ChildrenOf(v) ==
  IF v.kind = "array" THEN v.items
  ELSE IF IsObject(v) /\ Has(v, "content") THEN v.content
  ELSE <<>>

RECURSIVE PathsOf(_)
\* the positions of the tree v, each a sequence of child indices
PathsOf(v) ==
  {<<>>} \cup UNION {{<<i>> \o p : p \in PathsOf(ChildrenOf(v)[i])} :
                       i \in 1..Len(ChildrenOf(v))}

RECURSIVE At(_, _)
At(v, path) == IF path = <<>> THEN v ELSE At(ChildrenOf(v)[Head(path)], Tail(path))

Without(seq, i) == SubSeq(seq, 1, i - 1) \o SubSeq(seq, i + 1, Len(seq))

RECURSIVE RemoveAt(_, _)
\* the tree v with the node at path removed; nothing is left of the root
RemoveAt(v, path) ==
  IF path = <<>> THEN Null
  ELSE LET kids == ChildrenOf(v)
           i == Head(path)
           new == IF Len(path) = 1 THEN Without(kids, i)
                  ELSE [kids EXCEPT ![i] = RemoveAt(kids[i], Tail(path))]
       IN  IF v.kind = "array" THEN [v EXCEPT !.items = new]
           ELSE [v EXCEPT !.content = new]

UnknownPaths(v) == {p \in PathsOf(v) : IsUnknown(At(v, p))}

RECURSIVE HasMarkedText(_)
\* some node of the tree v is a text node with a marks list
HasMarkedText(v) ==
  \/ IsTextNode(v) /\ Has(v, "marks")
  \/ \E i \in 1..Len(ChildrenOf(v)) : HasMarkedText(ChildrenOf(v)[i])

\* The frame bound MaxCallDepth is never what stops the rendering of a tree:
\* a RangeError comes only from a text node with a marks list.
OverflowOnlyFromMarks ==
  (Rendered /\ ret.thrown = "RangeError") => HasMarkedText(arg)

(***************************************************************************)
(* Properties.                                                             *)
(***************************************************************************)
\* a missing input, a single node, or a sequence of nodes
IsNodeInput(v) ==
  \/ v.kind = "null"
  \/ IsObject(v)
  \/ v.kind = "array" /\ \A i \in 1..Len(v.items) : IsObject(v.items[i])

\* C1: render is total: on a missing input, a single node or a sequence of
\* nodes the call returns a string; no step diverges or throws.
C1_RenderTotal == (Rendered /\ IsNodeInput(arg)) => Returned

RECURSIVE Nested(_, _)
\* inner wrapped by the element of the first mark, then of the second, ...
Nested(marks, inner) ==
  IF marks = <<>> THEN inner
  ELSE Nested(Tail(marks), Resolve(Head(marks).type, WithText(Head(marks), inner), Null))

\* C2: a text node with marks [m1, ..., mn] of known types renders as the
\* text, escaped once, wrapped by m1's element, then m2's, ..., mn's outermost.
C2_MarksNestOutward ==
  (/\ Rendered
   /\ IsTextNode(arg)
   /\ Has(arg, "marks")
   /\ Len(arg.marks) >= 1
   /\ \A i \in 1..Len(arg.marks) : arg.marks[i].type \in MarkTypes)
  => ret = Ok(Nested(arg.marks, Escaped(arg.text)))

\* C3: a text node without marks renders as its text with each of & < > " '
\* replaced by its entity and every other character unchanged, and
\* unescaping the output gives back the text.
C3_PlainTextEscaped ==
  (Rendered /\ IsPlainText(arg))
  => /\ ret = Ok(Escaped(arg.text))
     /\ Unescaped(ret.value) = arg.text

\* C3 witness: the text "&lt;" has been rendered as "&amp;lt;".
C3_Witness ==
  /\ Rendered
  /\ arg = TextNode(<<"&", "l", "t", ";">>)
  /\ ret = Ok(<<"&", "a", "m", "p", ";", "l", "t", ";">>)

C4_Document == BlockOf("document", <<BlockOf("paragraph", <<BoldText>>)>>)

\* C4: every element emitted for a node without attrs opens as '<tag >', the
\* document's div included: the document of one paragraph of the bold text
\* "Hi <there>" renders as <div ><p ><strong >Hi &lt;there&gt;</strong></p></div>.
C4_EmptyAttrString ==
  (Rendered /\ arg = C4_Document)
  => ret = Ok(<<"<", "d", "i", "v", " ", ">", "<", "p", " ", ">", "<",
              "s", "t", "r", "o", "n", "g", " ", ">", "H", "i", " ",
              "&", "l", "t", ";", "t", "h", "e", "r", "e", "&", "g",
              "t", ";", "<", "/", "s", "t", "r", "o", "n", "g", ">",
              "<", "/", "p", ">", "<", "/", "d", "i", "v", ">">>)

\* C5: a node whose type has no resolver contributes the empty string for its
\* whole subtree, wherever it occurs, and the result is that of the same tree
\* with the node removed.
C5_UnknownContributesNothing ==
  Rendered =>
    \A p \in UnknownPaths(arg) :
      /\ render(At(arg, p), 1) = Ok(<<>>)
      /\ ret = render(RemoveAt(arg, p), 1)

\* C5 witness: a document of a text and an unknown node has been rendered as
\* the document of the text alone.
C5_Witness ==
  /\ Rendered
  /\ arg = BlockOf("document", <<TextNode(S_Hi), UnknownNode>>)
  /\ UnknownPaths(arg) = {<<2>>}
  /\ ret = Ok(<<"<", "d", "i", "v", ">", "H", "i", " ", "&", "l", "t", ";",
              "t", "h", "e", "r", "e", "&", "g", "t", ";", "<", "/", "d",
              "i", "v", ">">>)

\* C6: a top-level sequence renders as the concatenation, in order, of what
\* render returns for each element alone; a null element contributes "".
C6_SequenceConcatenates ==
  (Rendered /\ arg.kind = "array")
  => LET alone == [i \in 1..Len(arg.items) |-> render(arg.items[i], 1)]
     IN  (\A i \in 1..Len(alone) : alone[i].thrown = "none")
         => ret = Ok(Concat([i \in 1..Len(alone) |-> alone[i].value]))

\* the href the specification computes from linktype
ClaimedHref(mark) ==
  LET linktype == AttrOf(mark, K_linktype)
      href == AttrOf(mark, K_href)
  IN  IF ~Truthy(linktype) \/ ~Truthy(href) THEN <<>>
      ELSE IF linktype.value \in {LinkAsset, LinkUrl, LinkStory} THEN href.value
      ELSE IF linktype.value = LinkEmail
           THEN <<"m", "a", "i", "l", "t", "o", ":">> \o href.value
      ELSE <<>>

\* C7: a text node carrying a link or anchor mark renders as an 'a' element
\* with the href computed from linktype, a target attribute exactly when
\* attrs.target is present, and the escaped text inside.
C7_LinkElement ==
  (/\ Rendered
   /\ IsTextNode(arg)
   /\ Has(arg, "marks")
   /\ Len(arg.marks) = 1
   /\ IsLinkNode(arg.marks[1]))
  => /\ Returned
     /\ StartsWith(ret.value, <<"<", "a", " ">>)
     /\ Contains(OpeningTag(ret.value),
                 <<" ", "h", "r", "e", "f", "=", "\"">>
                   \o ClaimedHref(arg.marks[1]) \o <<"\"">>)
     /\ Contains(OpeningTag(ret.value), <<" ", "t", "a", "r", "g", "e", "t", "=">>)
          <=> Truthy(AttrOf(arg.marks[1], K_target))
     /\ EndsWith(ret.value, <<">">> \o Escaped(arg.text) \o <<"<", "/", "a", ">">>)

\* the src the specification describes: the base, '/m/{w}x{h}' when both are
\* positive, '/filters:f1:f2:...' when a filter applies
ClaimedSrc(src, options) ==
  IF options.kind = "null" THEN src
  ELSE src
    \o (IF imageW(options) > 0 /\ imageH(options) > 0
        THEN <<"/", "m", "/">> \o NumToStr(imageW(options)) \o <<"x">>
                               \o NumToStr(imageH(options))
        ELSE <<>>)
    \o (IF filterParams(options) # <<>>
        THEN <<"/", "f", "i", "l", "t", "e", "r", "s", ":">>
               \o JoinWith(filterParams(options), <<":">>)
        ELSE <<>>)

\* C8: the src optimizeImage returns is the base URL, then the size segment,
\* then a separate filters segment, each beginning with '/', so that a size
\* and the filters after it never run together.
C8_SrcSegments ==
  (/\ pc = "done"
   /\ op = "optimizeImage"
   /\ imageW(arg.options) > 0
   /\ imageH(arg.options) > 0
   /\ filterParams(arg.options) # <<>>)
  => ret.value.src = ClaimedSrc(arg.src, arg.options)

\* { ...node, content: [] }
WithContent(node, content) ==
  [f \in DOMAIN node \cup {"content"} |->
     IF f = "content" THEN content ELSE node[f]]

\* C9: a block node whose content is absent renders exactly as the same node
\* with the empty sequence as content.
C9_AbsentContentIsEmpty ==
  (Rendered /\ IsBlock(arg) /\ ~Has(arg, "content"))
  => ret = render(WithContent(arg, <<>>), 1)

\* C10: the opening tag of the 'a' element of a link or anchor mark holds
\* exactly one href attribute, the one computed from linktype, and at most
\* one target attribute.
C10_OneHref ==
  (Rendered /\ IsLinkNode(arg))
  => /\ Returned
     /\ Occurrences(OpeningTag(ret.value), <<"h", "r", "e", "f", "=">>) = 1
     /\ Contains(OpeningTag(ret.value),
                 <<"h", "r", "e", "f", "=", "\"">> \o linkHref(arg) \o <<"\"">>)
     /\ Occurrences(OpeningTag(ret.value), <<"t", "a", "r", "g", "e", "t", "=">>) <= 1

====
